---- MODULE Spec2Model ----
(***************************************************************************)
(* Extended Kalman filter, RTS smoother and forward-filter/backward-sample *)
(* drivers of dynamax/nonlinear_gaussian_ssm/inference_ekf.py.             *)
(*                                                                         *)
(* Real numbers are fixed-point integers: the integer n stands for         *)
(* n / SCALE.  Every product and quotient is rounded to the nearest unit,  *)
(* as a floating-point operation rounds its result.  Vectors are tuples of *)
(* numbers, matrices are tuples of rows.                                   *)
(***************************************************************************)
EXTENDS Integers, Sequences, FiniteSets, TLC

\* --------------------------------------------------------------------------
\* Fixed-point arithmetic
\* --------------------------------------------------------------------------
SCALE == 10 ^ 7
LIMB == 10 ^ 4
FRACDIGITS == 3 + 4

Abs(x) == IF x < 0 THEN -x ELSE x
Sgn(x) == IF x < 0 THEN -1 ELSE 1

\* a * b, rounded; the product is formed limb by limb to stay in range
MulAbs(x, y) ==
    LET x1 == x \div LIMB
        x0 == x % LIMB
        y1 == y \div LIMB
        y0 == y % LIMB
        cross == x1 * y0 + x0 * y1
        c1 == cross \div (SCALE \div LIMB)
        c0 == cross % (SCALE \div LIMB)
    IN  x1 * y1 * ((LIMB * LIMB) \div SCALE) + c1
          + (c0 * LIMB + x0 * y0 + SCALE \div 2) \div SCALE

Mul(a, b) == Sgn(a) * Sgn(b) * MulAbs(Abs(a), Abs(b))

\* long division, one decimal digit per round, then rounded
RECURSIVE DivDigits(_, _, _, _)
DivDigits(q, r, y, n) ==
    IF n = 0
    THEN q + (IF 2 * r >= y THEN 1 ELSE 0)
    ELSE DivDigits(q * 10 + (r * 10) \div y, (r * 10) % y, y, n - 1)

Div(a, b) ==
    Sgn(a) * Sgn(b) * DivDigits(Abs(a) \div Abs(b), Abs(a) % Abs(b), Abs(b), FRACDIGITS)

\* x / 2, rounded half away from zero
Half(x) == Sgn(x) * ((Abs(x) + 1) \div 2)

\* square root by Newton's iteration from above
RECURSIVE SqrtIter(_, _, _)
SqrtIter(x, s, n) ==
    IF n = 0 THEN s
    ELSE LET s2 == Half(s + Div(x, s))
         IN  IF s2 >= s THEN s ELSE SqrtIter(x, s2, n - 1)

Sqrt(x) == IF x <= 0 THEN 0 ELSE SqrtIter(x, IF x > SCALE THEN x ELSE SCALE, 40)

\* natural logarithm: x = m * 2^e with 1 <= m < 2, ln m by the atanh series
LN2 == 6931472 * (SCALE \div (10 ^ 7))
LN2PI == 18378771 * (SCALE \div (10 ^ 7))

RECURSIVE AtanhSeries(_, _, _, _)
AtanhSeries(zpow, z2, k, n) ==
    IF n = 0 THEN 0
    ELSE zpow \div k + AtanhSeries(Mul(zpow, z2), z2, k + 2, n - 1)

RECURSIVE Ln(_)
Ln(x) ==
    IF x >= 2 * SCALE THEN LN2 + Ln(Half(x))
    ELSE IF x < SCALE THEN Ln(2 * x) - LN2
    ELSE LET z == Div(x - SCALE, x + SCALE)
         IN  2 * AtanhSeries(z, Mul(z, z), 1, 9)

\* --------------------------------------------------------------------------
\* Dense linear algebra (jax.numpy)
\* --------------------------------------------------------------------------
\* values are built eagerly, element by element
RECURSIVE Tab(_, _)
Tab(Op(_), n) == IF n = 0 THEN << >> ELSE Append(Tab(Op, n - 1), Op(n))

RECURSIVE SumTo(_, _)
SumTo(Op(_), n) == IF n = 0 THEN 0 ELSE SumTo(Op, n - 1) + Op(n)

Rows(A) == Len(A)
Cols(A) == Len(A[1])

Transpose(A) == Tab(LAMBDA j : Tab(LAMBDA i : A[i][j], Rows(A)), Cols(A))
MatMul(A, B) ==
    Tab(LAMBDA i : Tab(LAMBDA j : SumTo(LAMBDA k : Mul(A[i][k], B[k][j]), Cols(A)), Cols(B)),
        Rows(A))
MatVec(A, v) == Tab(LAMBDA i : SumTo(LAMBDA k : Mul(A[i][k], v[k]), Cols(A)), Rows(A))
MatAdd(A, B) == Tab(LAMBDA i : Tab(LAMBDA j : A[i][j] + B[i][j], Cols(A)), Rows(A))
MatSub(A, B) == Tab(LAMBDA i : Tab(LAMBDA j : A[i][j] - B[i][j], Cols(A)), Rows(A))
MatScale(c, A) == Tab(LAMBDA i : Tab(LAMBDA j : Mul(c, A[i][j]), Cols(A)), Rows(A))
VecAdd(u, v) == Tab(LAMBDA i : u[i] + v[i], Len(u))
VecSub(u, v) == Tab(LAMBDA i : u[i] - v[i], Len(u))
Eye(n) == Tab(LAMBDA i : Tab(LAMBDA j : IF i = j THEN SCALE ELSE 0, n), n)

Det(A) ==
    IF Rows(A) = 1 THEN A[1][1]
    ELSE Mul(A[1][1], A[2][2]) - Mul(A[1][2], A[2][1])

\* jnp.linalg.inv of a 1x1 or 2x2 matrix
Inv(A) ==
    IF Rows(A) = 1 THEN << << Div(SCALE, A[1][1]) >> >>
    ELSE LET d == Det(A)
         IN  << << Div(A[2][2], d), Div(-A[1][2], d) >>,
                << Div(-A[2][1], d), Div(A[1][1], d) >> >>

IsSymmetric(A) == \A i \in 1..Rows(A) : \A j \in 1..Cols(A) : A[i][j] = A[j][i]

\* --------------------------------------------------------------------------
\* Model functions.  A dynamics or emission function is
\*     g(x, u) = L x + c (L x)^2 + B u      (the square taken elementwise)
\* and is linear exactly when c = 0.  jacfwd(g) is its exact derivative in x,
\*     J(x, u)[i][j] = (1 + 2 c (L x)[i]) L[i][j].
\* When no inputs are given the caller's function takes the state alone.
\* --------------------------------------------------------------------------
None == [tag |-> "none"]

FnValue(g, x, u, withInput) ==
    LET lx == MatVec(g.L, x)
        nl == Tab(LAMBDA i : lx[i] + Mul(g.c, Mul(lx[i], lx[i])), Len(lx))
    IN  IF withInput THEN VecAdd(nl, MatVec(g.B, u)) ELSE nl

FnJacobian(g, x, u, withInput) ==
    LET lx == MatVec(g.L, x)
    IN  Tab(LAMBDA i : Tab(LAMBDA j : g.L[i][j] + Mul(Mul(2 * g.c, lx[i]), g.L[i][j]),
                           Cols(g.L)), Rows(g.L))

jacfwd(g) == [kind |-> "jac", fn |-> g, two |-> TRUE]
AsFunc(g) == [kind |-> "fun", fn |-> g, two |-> TRUE]

\* a call fn(x, u) of a processed function or Jacobian
Call(pf, x, u) ==
    IF pf.kind = "jac" THEN FnJacobian(pf.fn, x, u, pf.two)
    ELSE FnValue(pf.fn, x, u, pf.two)

\* Helper functions
\* x[t] under lax.scan is a dynamic index, clamped to the array's bounds
ClampIndex(t, n) == IF t > n - 1 THEN n - 1 ELSE IF t < 0 THEN 0 ELSE t
_get_params(x, dim, t) ==
    IF x.ndim = dim + 1 THEN x.stack[ClampIndex(t, Len(x.stack)) + 1] ELSE x.mat
_process_fn(f, u) == IF u = None THEN [f EXCEPT !.two = FALSE] ELSE f
_process_input(x, y) ==
    IF x = None THEN [tag |-> "array", v |-> Tab(LAMBDA t : << 0 >>, y)] ELSE x

\* dynamax.utils.utils
symmetrize(A) == Tab(LAMBDA i : Tab(LAMBDA j : Half(A[i][j] + A[j][i]), Cols(A)), Rows(A))
psd_solve(A, b) == MatMul(Inv(A), b)

\* the regularisation added to the innovation covariance
JITTER == SCALE \div 1000

\* --------------------------------------------------------------------------
\* _predict
\* --------------------------------------------------------------------------
\* Sigma_pred = F_x @ prior_cov @ F_x.T + dynamics_cov
PredictCov(F_x, prior_cov, dynamics_cov) ==
    MatAdd(MatMul(MatMul(F_x, prior_cov), Transpose(F_x)), dynamics_cov)

_predict(prior_mean, prior_cov, dynamics_func, dynamics_jacobian, dynamics_cov, inpt) ==
    [mean |-> Call(dynamics_func, prior_mean, inpt),
     cov |-> PredictCov(Call(dynamics_jacobian, prior_mean, inpt), prior_cov, dynamics_cov)]

\* --------------------------------------------------------------------------
\* _condition_on
\* --------------------------------------------------------------------------
\* the emission covariance left out of the innovation covariance
InnovationCovNoR(H_x, prior_cov, emission_cov) ==
    MatAdd(MatMul(MatMul(H_x, prior_cov), Transpose(H_x)),
           MatScale(JITTER, Eye(Rows(emission_cov))))

\* S = emission_cov + H_x @ prior_cov @ H_x.T + jnp.eye(...) * 1e-3
InnovationCov(H_x, prior_cov, emission_cov) ==
    MatAdd(MatAdd(emission_cov, MatMul(MatMul(H_x, prior_cov), Transpose(H_x))),
           MatScale(JITTER, Eye(Rows(emission_cov))))

\* K = prior_cov @ H_x.T @ jnp.linalg.inv(S)
Gain(H_x, prior_cov, S) == MatMul(MatMul(prior_cov, Transpose(H_x)), Inv(S))

\* posterior_cov = (I - K @ H_x) @ prior_cov @ (I - K @ H_x).T + K @ emission_cov @ K.T
JosephCov(IKH, K, prior_cov, emission_cov) ==
    MatAdd(MatMul(MatMul(IKH, prior_cov), Transpose(IKH)),
           MatMul(MatMul(K, emission_cov), Transpose(K)))

\* posterior_mean = prior_mean + K @ (emission - emission_func(prior_mean, inpt))
PosteriorMean(prior_mean, K, emission, predicted) ==
    VecAdd(prior_mean, MatVec(K, VecSub(emission, predicted)))

CondUpdate(prior_mean, prior_cov, H_x, K, emission_cov, emission, predicted) ==
    [mean |-> PosteriorMean(prior_mean, K, emission, predicted),
     cov |-> JosephCov(MatSub(Eye(Len(prior_mean)), MatMul(K, H_x)), K, prior_cov, emission_cov)]

CondLinearized(prior_mean, prior_cov, H_x, emission_cov, emission, predicted) ==
    CondUpdate(prior_mean, prior_cov, H_x,
               Gain(H_x, prior_cov, InnovationCov(H_x, prior_cov, emission_cov)),
               emission_cov, emission, predicted)

\* one relinearization round (_condition_on._step)
CondStep(carry, emission_func, emission_jacobian, emission_cov, inpt, emission) ==
    CondLinearized(carry.mean, carry.cov, Call(emission_jacobian, carry.mean, inpt),
                   emission_cov, emission, Call(emission_func, carry.mean, inpt))

RECURSIVE CondScan(_, _, _, _, _, _, _)
CondScan(carry, emission_func, emission_jacobian, emission_cov, inpt, emission, n) ==
    IF n = 0 THEN carry
    ELSE CondScan(CondStep(carry, emission_func, emission_jacobian, emission_cov, inpt, emission),
                  emission_func, emission_jacobian, emission_cov, inpt, emission, n - 1)

\* the covariance returned as the scan left it
CondReturnUnsymmetrized(last) == [mean |-> last.mean, cov |-> last.cov]

\* return mu_cond, symmetrize(Sigma_cond)
CondReturn(last) == [mean |-> last.mean, cov |-> symmetrize(last.cov)]

_condition_on(prior_mean, prior_cov, emission_func, emission_jacobian, emission_cov, inpt, emission, num_iter) ==
    CondReturn(CondScan([mean |-> prior_mean, cov |-> prior_cov], emission_func,
                        emission_jacobian, emission_cov, inpt, emission, num_iter))

\* --------------------------------------------------------------------------
\* Gaussian distribution capability (MultivariateNormalFullCovariance)
\* --------------------------------------------------------------------------
Cholesky(A) ==
    IF Rows(A) = 1 THEN << << Sqrt(A[1][1]) >> >>
    ELSE LET l11 == Sqrt(A[1][1])
             l21 == Div(A[2][1], l11)
             l22 == Sqrt(A[2][2] - Mul(l21, l21))
         IN  << << l11, 0 >>, << l21, l22 >> >>

Dot(u, v) == SumTo(LAMBDA k : Mul(u[k], v[k]), Len(u))

\* MVN(mean, cov).log_prob(y)
MVNLogProb(mean, cov, y) ==
    LET d == VecSub(y, mean)
        maha == Dot(d, MatVec(Inv(cov), d))
    IN  -Half(Len(y) * LN2PI + Ln(Det(cov)) + maha)


\* seed-determined standard normal draws: the key's hash picks from a table
NormalTable == << -12 * (SCALE \div 10), -4 * (SCALE \div 10), 0, 3 * (SCALE \div 10), 9 * (SCALE \div 10) >>
RECURSIVE KeyHash(_)
KeyHash(k) == IF k = << >> THEN 0 ELSE (3 * KeyHash(Tail(k)) + Head(k) + 1) % 25
StdNormal(k, n) == Tab(LAMBDA i : NormalTable[((KeyHash(k) + 2 * i) % 5) + 1], n)

\* MVN(mean, cov).sample(seed=k)
MVNSample(mean, cov, k) == VecAdd(mean, MatVec(Cholesky(cov), StdNormal(k, Len(mean))))

\* jr.split(k, n): n keys derived from k, the i-th independent of n
split(k, n) == Tab(LAMBDA i : k \o << i - 1 >>, n)

\* --------------------------------------------------------------------------
\* State
\* --------------------------------------------------------------------------
VARIABLES
    call,            \* the driver called: "filter", "smoother" or "sampler"
    params,          \* ParamsNLGSSM
    emissions,       \* observation sequence
    inputs,          \* None or the input sequence
    num_iter,        \* the filter's num_iter
    output_fields,   \* the filter's output_fields
    key,             \* the sampler's key argument
    supplied,        \* smoother: filtered_posterior was passed by the caller
    pc,              \* position in the call
    t,               \* index of the next scan step
    carry,           \* the running scan's carry
    outputs,         \* the filter scan's stacked outputs
    posterior,       \* the PosteriorGSSMFiltered returned by the filter
    smoothed,        \* the smoother scan's stacked outputs, then its result
    states,          \* the sampler scan's stacked outputs, then its result
    skeys,           \* the sampler's keys: [carry, this_key, steps]
    carryIn,         \* history: the carry entering each filter step
    llTerms,         \* history: the log-density added at each filter step
    smPred,          \* history: (m_pred, S_pred) of each smoother step
    draws,           \* history: every MVN draw of the sampler
    last_state,      \* the sampler's draw for the last timestep
    result,          \* what the call returned
    run,             \* how many times the call has been made
    firstResult      \* the result of the first call

vars == << call, params, emissions, inputs, num_iter, output_fields, key, supplied,
           pc, t, carry, outputs, posterior, smoothed, states, skeys,
           carryIn, llTerms, smPred, draws, last_state, result, run, firstResult >>

args == << call, params, emissions, inputs, num_iter, output_fields, key, supplied >>

FieldNames == { "filtered_means", "filtered_covariances", "predicted_means",
                "predicted_covariances", "marginal_loglik" }
DefaultFields == { "filtered_means", "filtered_covariances", "predicted_means",
                   "predicted_covariances" }

num_timesteps == Len(emissions)

\* Dynamics and emission functions and their Jacobians, as each driver builds them
f == _process_fn(AsFunc(params.dynamics_function), inputs)
h == _process_fn(AsFunc(params.emission_function), inputs)
F == _process_fn(jacfwd(params.dynamics_function), inputs)
H == _process_fn(jacfwd(params.emission_function), inputs)
inputs_ == _process_input(inputs, num_timesteps)

\* --------------------------------------------------------------------------
\* extended_kalman_filter
\* --------------------------------------------------------------------------
\* Build carry and output states
FilterStepOut(ll, term, filt, pred) ==
    [carry |-> [ll |-> ll, mean |-> pred.mean, cov |-> pred.cov],
     term |-> term,
     outputs |-> [filtered_means |-> filt.mean,
                  filtered_covariances |-> filt.cov,
                  predicted_means |-> pred.mean,
                  predicted_covariances |-> pred.cov,
                  marginal_loglik |-> ll]]

\* Predict the next state
FilterStepPredict(c, tt, u, term, filt) ==
    FilterStepOut(c.ll + term, term, filt,
                  _predict(filt.mean, filt.cov, f, F,
                           _get_params(params.dynamics_covariance, 2, tt), u))

\* log N(y; h(pred_mean, u), H_x @ pred_cov @ H_x.T + R)
PredictiveLogProb(pred_mean, pred_cov, H_x, R, u, y) ==
    MVNLogProb(Call(h, pred_mean, u),
               MatAdd(MatMul(MatMul(H_x, pred_cov), Transpose(H_x)), R), y)

\* the log likelihood updated after the conditioning, from the filtered estimate
FilterStepUpdateAfter(c, tt, niter, R, u, y) ==
    FilterStepPredict(c, tt, u,
                      PredictiveLogProb(_condition_on(c.mean, c.cov, h, H, R, u, y, niter).mean,
                                        _condition_on(c.mean, c.cov, h, H, R, u, y, niter).cov,
                                        Call(H, c.mean, u), R, u, y),
                      _condition_on(c.mean, c.cov, h, H, R, u, y, niter))

\* Update the log likelihood, then condition on this emission
FilterStepUpdate(c, tt, niter, R, u, y) ==
    FilterStepPredict(c, tt, u,
                      PredictiveLogProb(c.mean, c.cov, Call(H, c.mean, u), R, u, y),
                      _condition_on(c.mean, c.cov, h, H, R, u, y, niter))

\* the scan body _step(carry, t), with every output before the selection
FilterStepFn(c, tt, niter) ==
    FilterStepUpdate(c, tt, niter, _get_params(params.emission_covariance, 2, tt),
                     inputs_.v[tt + 1], emissions[tt + 1])

FilterInitCarry == [ll |-> 0, mean |-> params.initial_mean, cov |-> params.initial_covariance]

\* outputs = {"marginal_loglik": ll, **outputs}; PosteriorGSSMFiltered(**outputs)
FilterPosterior(ll, outs) ==
    [k \in FieldNames |->
        IF k \in DOMAIN outs THEN [tag |-> "array", v |-> outs[k]]
        ELSE IF k = "marginal_loglik" THEN [tag |-> "scalar", x |-> ll]
        ELSE None]

FilterAdvance(r) ==
    /\ carryIn' = Append(carryIn, [mean |-> carry.mean, cov |-> carry.cov])
    /\ llTerms' = Append(llTerms, r.term)
    /\ outputs' = [k \in output_fields |-> Append(outputs[k], r.outputs[k])]
    /\ carry' = r.carry

FilterStep ==
    /\ pc = "filter"
    /\ t < num_timesteps
    /\ FilterAdvance(FilterStepFn(carry, t, num_iter))
    /\ t' = t + 1
    /\ UNCHANGED << args, pc, posterior, smoothed, states, skeys, smPred, draws,
                    last_state, result, run, firstResult >>

\* carry = (0.0, m0, S0); the scan has ended: build and return the posterior
FilterReturn ==
    /\ pc = "filter"
    /\ t = num_timesteps
    /\ posterior' = FilterPosterior(carry.ll, outputs)
    /\ IF call = "filter"
       THEN /\ pc' = "done"
            /\ result' = posterior'
            /\ UNCHANGED << t, carry >>
       ELSE IF call = "smoother"
       THEN /\ pc' = "smooth"
            /\ t' = num_timesteps - 2
            /\ carry' = [mean |-> posterior'.filtered_means.v[num_timesteps],
                         cov |-> posterior'.filtered_covariances.v[num_timesteps]]
            /\ UNCHANGED result
       ELSE /\ pc' = "sample_init"
            /\ UNCHANGED << t, carry, result >>
    /\ UNCHANGED << args, outputs, smoothed, states, skeys, carryIn, llTerms, smPred,
                    draws, last_state, run, firstResult >>

\* --------------------------------------------------------------------------
\* extended_kalman_smoother
\* --------------------------------------------------------------------------
\* Compute smoothed mean and covariance
SmootherUpdate(c, filtered_mean, filtered_cov, m_pred, S_pred, G) ==
    [mean |-> VecAdd(filtered_mean, MatVec(G, VecSub(c.mean, m_pred))),
     cov |-> MatAdd(filtered_cov, MatMul(MatMul(G, MatSub(c.cov, S_pred)), Transpose(G))),
     m_pred |-> m_pred,
     S_pred |-> S_pred]

\* G = psd_solve(S_pred, F_x @ filtered_cov).T
SmootherGain(c, filtered_mean, filtered_cov, F_x, m_pred, S_pred) ==
    SmootherUpdate(c, filtered_mean, filtered_cov, m_pred, S_pred,
                   Transpose(psd_solve(S_pred, MatMul(F_x, filtered_cov))))

\* the prediction covariance regularised like the innovation covariance
SmootherPredictJittered(c, filtered_mean, filtered_cov, Q, u, F_x) ==
    SmootherGain(c, filtered_mean, filtered_cov, F_x, Call(f, filtered_mean, u),
                 MatAdd(MatAdd(Q, MatScale(JITTER, Eye(Rows(Q)))),
                        MatMul(MatMul(F_x, filtered_cov), Transpose(F_x))))

\* Prediction step
SmootherPredict(c, filtered_mean, filtered_cov, Q, u, F_x) ==
    SmootherGain(c, filtered_mean, filtered_cov, F_x, Call(f, filtered_mean, u),
                 MatAdd(Q, MatMul(MatMul(F_x, filtered_cov), Transpose(F_x))))

\* the scan body _step(carry, (t, filtered_mean, filtered_cov))
SmootherStepFn(c, tt, filtered_mean, filtered_cov) ==
    SmootherPredict(c, filtered_mean, filtered_cov,
                    _get_params(params.dynamics_covariance, 2, tt), inputs_.v[tt + 1],
                    Call(F, filtered_mean, inputs_.v[tt + 1]))

\* the boundary taken from the first filtered entry instead of the last
SmootherResultFirst(ll, filtered_means, filtered_covs, smoothed_means, smoothed_covs) ==
    [marginal_loglik |-> ll,
     filtered_means |-> filtered_means,
     filtered_covariances |-> filtered_covs,
     smoothed_means |-> Append(smoothed_means, filtered_means[1]),
     smoothed_covariances |-> Append(smoothed_covs, filtered_covs[1])]

\* Concatenate the arrays and return
SmootherResult(ll, filtered_means, filtered_covs, smoothed_means, smoothed_covs) ==
    [marginal_loglik |-> ll,
     filtered_means |-> filtered_means,
     filtered_covariances |-> filtered_covs,
     smoothed_means |-> Append(smoothed_means, filtered_means[Len(filtered_means)]),
     smoothed_covariances |-> Append(smoothed_covs, filtered_covs[Len(filtered_covs)])]

SmootherAdvance(r) ==
    /\ carry' = [mean |-> r.mean, cov |-> r.cov]
    /\ smoothed' = [means |-> << r.mean >> \o smoothed.means,
                    covs |-> << r.cov >> \o smoothed.covs]
    /\ smPred' = << [mean |-> r.m_pred, cov |-> r.S_pred] >> \o smPred

SmootherStep ==
    /\ pc = "smooth"
    /\ t >= 0
    /\ SmootherAdvance(SmootherStepFn(carry, t, posterior.filtered_means.v[t + 1],
                                      posterior.filtered_covariances.v[t + 1]))
    /\ t' = t - 1
    /\ UNCHANGED << args, pc, outputs, posterior, states, skeys, carryIn, llTerms, draws,
                    last_state, result, run, firstResult >>

SmootherReturn ==
    /\ pc = "smooth"
    /\ t < 0
    /\ result' = SmootherResult(posterior.marginal_loglik, posterior.filtered_means.v,
                                posterior.filtered_covariances.v,
                                smoothed.means, smoothed.covs)
    /\ pc' = "done"
    /\ UNCHANGED << args, t, carry, outputs, posterior, smoothed, states, skeys, carryIn,
                    llTerms, smPred, draws, last_state, run, firstResult >>

\* --------------------------------------------------------------------------
\* extended_kalman_posterior_sample
\* --------------------------------------------------------------------------
\* the last state drawn with the caller's key, which is then split for the steps
SamplerKeysNoFirstSplit(k, n) == [carry |-> k, this |-> k, steps |-> split(k, n - 1)]

\* key, this_key = jr.split(key, 2); the step keys are jr.split(key, T - 1)
SamplerKeys(k, n) ==
    LET ks == split(k, 2)
    IN  [carry |-> ks[1], this |-> ks[2], steps |-> split(ks[1], n - 1)]

\* state = MVN(smoothed_mean, smoothed_cov).sample(seed=key)
SamplerDraw(sm, k) == [state |-> MVNSample(sm.mean, sm.cov, k), mean |-> sm.mean, cov |-> sm.cov]

\* the scan body _step(next_state, (key, filtered_mean, filtered_cov, t))
SamplerStepFn(next_state, k, filtered_mean, filtered_cov, tt) ==
    SamplerDraw(_condition_on(filtered_mean, filtered_cov, f, F,
                              _get_params(params.dynamics_covariance, 2, tt),
                              inputs_.v[tt + 1], next_state, 1), k)

\* the last state stacked first
SamplerResultLastFirst(sts, last) == << last >> \o sts

\* jnp.vstack([states, last_state])
SamplerResult(sts, last) == Append(sts, last)

SamplerFirstDraw(ks, m, S, x) ==
    /\ skeys' = ks
    /\ last_state' = x
    /\ carry' = x
    /\ draws' = << [t |-> num_timesteps - 1, key |-> ks.this, mean |-> m, cov |-> S,
                    given |-> None, state |-> x] >>

\* Initialize the last state
SamplerLast(ks, m, S) == SamplerFirstDraw(ks, m, S, MVNSample(m, S, ks.this))

SamplerInit ==
    /\ pc = "sample_init"
    /\ SamplerLast(SamplerKeys(key, num_timesteps), posterior.filtered_means.v[num_timesteps],
                   posterior.filtered_covariances.v[num_timesteps])
    /\ t' = num_timesteps - 2
    /\ pc' = "sample"
    /\ UNCHANGED << args, outputs, posterior, smoothed, states, carryIn, llTerms, smPred,
                    result, run, firstResult >>

SamplerAdvance(r) ==
    /\ states' = << r.state >> \o states
    /\ draws' = Append(draws, [t |-> t, key |-> skeys.steps[t + 1], mean |-> r.mean,
                               cov |-> r.cov, given |-> [tag |-> "array", v |-> carry],
                               state |-> r.state])
    /\ carry' = r.state

SamplerStep ==
    /\ pc = "sample"
    /\ t >= 0
    /\ SamplerAdvance(SamplerStepFn(carry, skeys.steps[t + 1], posterior.filtered_means.v[t + 1],
                                    posterior.filtered_covariances.v[t + 1], t))
    /\ t' = t - 1
    /\ UNCHANGED << args, pc, outputs, posterior, smoothed, skeys, carryIn, llTerms, smPred,
                    last_state, result, run, firstResult >>

SamplerReturn ==
    /\ pc = "sample"
    /\ t < 0
    /\ result' = SamplerResult(states, last_state)
    /\ pc' = "done"
    /\ UNCHANGED << args, t, carry, outputs, posterior, smoothed, states, skeys, carryIn,
                    llTerms, smPred, draws, last_state, run, firstResult >>

\* --------------------------------------------------------------------------
\* Calls
\* --------------------------------------------------------------------------
\* the caller repeats a finished sampler call with the same arguments
CallAgain ==
    /\ pc = "done"
    /\ call = "sampler"
    /\ run = 1
    /\ run' = 2
    /\ firstResult' = result
    /\ UNCHANGED args
    /\ pc' = "filter"
    /\ t' = 0
    /\ carry' = FilterInitCarry
    /\ outputs' = [k \in output_fields |-> << >>]
    /\ posterior' = None
    /\ smoothed' = [means |-> << >>, covs |-> << >>]
    /\ states' = << >>
    /\ skeys' = None
    /\ carryIn' = << >>
    /\ llTerms' = << >>
    /\ smPred' = << >>
    /\ draws' = << >>
    /\ last_state' = None
    /\ result' = None

\* --------------------------------------------------------------------------
\* Arguments
\* --------------------------------------------------------------------------
MaxT == 3

Tenths(n) == n * (SCALE \div 10)

Fn(L, c, B) == [L |-> L, c |-> c, B |-> B]
Const(M) == [ndim |-> 2, mat |-> M]
PerStep(M, n) ==
    [ndim |-> 3, stack |-> Tab(LAMBDA k : MatAdd(M, MatScale(Tenths(k - 1), Eye(Rows(M)))), n)]

\* f(x) = 0.9 x, h(x) = x, Q = 0.1, R = 1.0, m0 = 0, S0 = 1.0
Linear1D ==
    [dynamics_function |-> Fn(<< << Tenths(9) >> >>, 0, << << Tenths(5) >> >>),
     emission_function |-> Fn(<< << Tenths(10) >> >>, 0, << << 0 >> >>),
     dynamics_covariance |-> Const(<< << Tenths(1) >> >>),
     emission_covariance |-> Const(<< << Tenths(10) >> >>),
     initial_mean |-> << 0 >>,
     initial_covariance |-> << << Tenths(10) >> >>]

Nonlinear1D ==
    [dynamics_function |-> Fn(<< << Tenths(10) >> >>, -Tenths(1), << << Tenths(5) >> >>),
     emission_function |-> Fn(<< << Tenths(10) >> >>, Tenths(2), << << Tenths(1) >> >>),
     dynamics_covariance |-> Const(<< << Tenths(2) >> >>),
     emission_covariance |-> Const(<< << Tenths(5) >> >>),
     initial_mean |-> << Tenths(5) >>,
     initial_covariance |-> << << Tenths(10) >> >>]

Linear2D ==
    [dynamics_function |-> Fn(<< << Tenths(10), Tenths(5) >>, << 0, Tenths(9) >> >>, 0,
                              << << 0 >>, << Tenths(5) >> >>),
     emission_function |-> Fn(<< << Tenths(10), 0 >> >>, 0, << << 0 >> >>),
     dynamics_covariance |-> Const(<< << Tenths(2), Tenths(1) >>, << Tenths(1), Tenths(3) >> >>),
     emission_covariance |-> Const(<< << Tenths(5) >> >>),
     initial_mean |-> << 0, Tenths(10) >>,
     initial_covariance |-> << << Tenths(10), Tenths(2) >>, << Tenths(2), Tenths(10) >> >>]

Nonlinear2D ==
    [dynamics_function |-> Fn(<< << Tenths(9), Tenths(3) >>, << -Tenths(2), Tenths(8) >> >>,
                              Tenths(1), << << Tenths(2) >>, << 0 >> >>),
     emission_function |-> Fn(<< << Tenths(10), 0 >>, << Tenths(5), Tenths(10) >> >>,
                              Tenths(1), << << 0 >>, << Tenths(1) >> >>),
     dynamics_covariance |-> Const(<< << Tenths(2), Tenths(1) >>, << Tenths(1), Tenths(3) >> >>),
     emission_covariance |-> Const(<< << Tenths(5), Tenths(1) >>, << Tenths(1), Tenths(4) >> >>),
     initial_mean |-> << Tenths(2), -Tenths(3) >>,
     initial_covariance |-> << << Tenths(10), Tenths(2) >>, << Tenths(2), Tenths(10) >> >>]

Models == { Linear1D, Nonlinear1D, Linear2D, Nonlinear2D }

\* the lengths a per-timestep covariance array can have against T observations
Lengths(T) == { n \in { T - 1, T, T + 1 } : n >= 1 }

\* a model with constant covariances, or with one of them given per timestep
ParamChoices(T) ==
    Models
    \cup { [m EXCEPT !.dynamics_covariance = PerStep(m.dynamics_covariance.mat, n)] :
              m \in Models, n \in Lengths(T) }
    \cup { [m EXCEPT !.emission_covariance = PerStep(m.emission_covariance.mat, n)] :
              m \in { Linear1D, Nonlinear2D }, n \in Lengths(T) }

ObsTable == << Tenths(5), -Tenths(2), Tenths(8), Tenths(3), -Tenths(6) >>
Observations(k, dim, T) ==
    Tab(LAMBDA tt : Tab(LAMBDA i : ObsTable[((k + tt - 1 + 2 * (i - 1)) % 5) + 1], dim), T)
InputChoices(T) ==
    { None, [tag |-> "array", v |-> Tab(LAMBDA tt : << ObsTable[((tt + 2) % 5) + 1] >>, T)] }

\* (call, num_iter, output_fields, supplied, key)
CallChoices ==
    { << "filter", n, DefaultFields, FALSE, << 0 >> >> : n \in { 1, 2, 5 } }
    \cup { << "filter", 1, fs, FALSE, << 0 >> >> :
              fs \in { FieldNames, { "marginal_loglik" }, { }, { "filtered_means", "marginal_loglik" } } }
    \cup { << "smoother", 1, DefaultFields, FALSE, << 0 >> >>,
           << "smoother", 2, FieldNames \ { "marginal_loglik" }, TRUE, << 0 >> >> }
    \cup { << "sampler", 1, DefaultFields, FALSE, k >> : k \in { << 0 >>, << 7 >> } }

Init ==
    /\ \E T \in 1..MaxT :
         /\ params \in ParamChoices(T)
         /\ \E k \in { 0, 2 } :
              emissions = Observations(k, Rows(params.emission_function.L), T)
         /\ inputs \in InputChoices(T)
    /\ \E c \in CallChoices :
         /\ call = c[1]
         /\ num_iter = c[2]
         /\ output_fields = c[3]
         /\ supplied = c[4]
         /\ key = c[5]
    /\ pc = "filter"
    /\ t = 0
    /\ carry = FilterInitCarry
    /\ outputs = [k \in output_fields |-> << >>]
    /\ posterior = None
    /\ smoothed = [means |-> << >>, covs |-> << >>]
    /\ states = << >>
    /\ skeys = None
    /\ carryIn = << >>
    /\ llTerms = << >>
    /\ smPred = << >>
    /\ draws = << >>
    /\ last_state = None
    /\ result = None
    /\ run = 1
    /\ firstResult = None

Next ==
    \/ FilterStep
    \/ FilterReturn
    \/ SmootherStep
    \/ SmootherReturn
    \/ SamplerInit
    \/ SamplerStep
    \/ SamplerReturn
    \/ CallAgain

Spec == Init /\ [][Next]_vars

\* --------------------------------------------------------------------------
\* Properties
\* --------------------------------------------------------------------------
Done == pc = "done"
T_ == num_timesteps

RECURSIVE SeqSum(_)
SeqSum(q) == IF q = << >> THEN 0 ELSE Head(q) + SeqSum(Tail(q))

Retained(k) == k \in output_fields
Q_(tt) == _get_params(params.dynamics_covariance, 2, tt)
R_(tt) == _get_params(params.emission_covariance, 2, tt)
u_(tt) == inputs_.v[tt + 1]

\* C1: the smoother returns T smoothed means and covariances whose last entry is
\* the last filtered mean and covariance of the posterior it used, for T >= 1.
SmootherBoundary ==
    (Done /\ call = "smoother") =>
        /\ Len(result.smoothed_means) = T_
        /\ Len(result.smoothed_covariances) = T_
        /\ result.smoothed_means[T_] = posterior.filtered_means.v[T_]
        /\ result.smoothed_covariances[T_] = posterior.filtered_covariances.v[T_]
        /\ result.filtered_means = posterior.filtered_means.v
        /\ result.filtered_covariances = posterior.filtered_covariances.v

\* the backward scan ran zero steps
SmootherBoundaryOneStep ==
    /\ Done /\ call = "smoother" /\ T_ = 1
    /\ smPred = << >>
    /\ result.smoothed_means = posterior.filtered_means.v

\* the backward scan ran and moved the earlier estimates
SmootherBoundaryLong ==
    /\ Done /\ call = "smoother" /\ T_ = MaxT
    /\ result.smoothed_means[1] # posterior.filtered_means.v[1]

\* C6 (as stated): with symmetric Q, R and S0, every covariance the drivers
\* produce equals its transpose: each filtered covariance returned by
\* _condition_on, each predicted covariance returned by _predict and each
\* smoothed covariance of the smoother's backward recursion.
AllSymmetric(covs) == \A i \in 1..Len(covs) : IsSymmetric(covs[i])

CovariancesSymmetric ==
    /\ Retained("filtered_covariances") => AllSymmetric(outputs["filtered_covariances"])
    /\ Retained("predicted_covariances") => AllSymmetric(outputs["predicted_covariances"])
    /\ AllSymmetric(smoothed.covs)
    /\ (Done /\ call = "smoother") => AllSymmetric(result.smoothed_covariances)

\* C6 (amended): with symmetric Q, R and S0, every covariance returned by
\* _condition_on equals its transpose exactly, at every timestep and for every
\* num_iter: the filtered covariances of the filter, those the smoother and the
\* sampler read from the posterior, and the conditioned covariances of the
\* sampler's backward steps.  (Predicted and smoothed covariances are not
\* symmetrized and are symmetric only up to rounding.)
FilteredCovariancesSymmetric ==
    /\ Retained("filtered_covariances") => AllSymmetric(outputs["filtered_covariances"])
    /\ (posterior # None /\ posterior.filtered_covariances.tag = "array") =>
          AllSymmetric(posterior.filtered_covariances.v)
    /\ \A i \in 1..Len(draws) : IsSymmetric(draws[i].cov)
    /\ (Done /\ call = "smoother") => AllSymmetric(result.filtered_covariances)

\* the product of the last relinearization round, before _condition_on returns
JosephAt(i) ==
    CondScan([mean |-> carryIn[i].mean, cov |-> carryIn[i].cov], h, H, R_(i - 1), u_(i - 1),
             emissions[i], num_iter).cov

\* a filter run on a two-dimensional state whose Joseph-form product at the
\* last step is not symmetric, while the filtered covariance returned is
FilteredCovariancesSymmetricReached ==
    /\ Done /\ call = "filter" /\ T_ = MaxT
    /\ Len(params.initial_mean) = 2
    /\ Retained("filtered_covariances")
    /\ outputs["filtered_covariances"][T_][1][2] # 0
    /\ ~IsSymmetric(JosephAt(T_))
    /\ IsSymmetric(outputs["filtered_covariances"][T_])

\* C7: the sampler is reproducible and never reuses randomness: T draws, each
\* with its own key split from the caller's key, the caller's key used for none;
\* a second call with the same arguments returns the same trajectory.
IsProperPrefix(a, b) == Len(a) < Len(b) /\ SubSeq(b, 1, Len(a)) = a

SamplerKeysFresh ==
    /\ call = "sampler" =>
          /\ \A i, j \in 1..Len(draws) : i # j => draws[i].key # draws[j].key
          /\ \A i \in 1..Len(draws) :
                draws[i].key # key /\ IsProperPrefix(key, draws[i].key)
    /\ (Done /\ call = "sampler") =>
          /\ Len(draws) = T_
          /\ Cardinality({ draws[i].key : i \in 1..Len(draws) }) = T_
          /\ Cardinality({ i \in 1..Len(draws) : draws[i].given = None }) = 1
          /\ draws[1].given = None
          /\ run = 2 => result = firstResult

\* the second of two calls has finished, each having made MaxT draws
SamplerKeysFreshReached ==
    /\ Done /\ call = "sampler" /\ run = 2 /\ T_ = MaxT
    /\ Len(draws) = MaxT
    /\ result = firstResult

\* C8: the filter takes the timesteps in increasing order from the carry
\* (0, m0, S0); the log-likelihood increment of step t is the predictive
\* log-density at the mean and covariance carried into step t, the conditioning
\* starts from that same carry, and the prediction from its result is the next
\* carry.
StepLogProb(c, i) ==
    PredictiveLogProb(c.mean, c.cov, Call(H, c.mean, u_(i - 1)), R_(i - 1), u_(i - 1),
                      emissions[i])
StepFiltered(c, i) ==
    _condition_on(c.mean, c.cov, h, H, R_(i - 1), u_(i - 1), emissions[i], num_iter)
StepPredicted(fl, i) == _predict(fl.mean, fl.cov, f, F, Q_(i - 1), u_(i - 1))
CarryAfter(i) ==
    IF i < Len(carryIn) THEN carryIn[i + 1] ELSE [mean |-> carry.mean, cov |-> carry.cov]

StepAsClaimed(i, c, fl) ==
    /\ llTerms[i] = StepLogProb(c, i)
    /\ Retained("filtered_means") => outputs["filtered_means"][i] = fl.mean
    /\ Retained("filtered_covariances") => outputs["filtered_covariances"][i] = fl.cov
    /\ (pc = "filter" \/ i < Len(carryIn)) => CarryAfter(i) = StepPredicted(fl, i)

FilterStepOrder ==
    /\ pc = "filter" =>
          /\ Len(carryIn) = t
          /\ Len(llTerms) = t
          /\ carry.ll = SeqSum(llTerms)
          /\ t = 0 => carry = [ll |-> 0, mean |-> params.initial_mean,
                               cov |-> params.initial_covariance]
    /\ Len(carryIn) >= 1 =>
          carryIn[1] = [mean |-> params.initial_mean, cov |-> params.initial_covariance]
    /\ \A i \in 1..Len(carryIn) : StepAsClaimed(i, carryIn[i], StepFiltered(carryIn[i], i))

\* a finished filter whose last increment differs from the log-density at the
\* filtered estimate of the same step
FilterStepOrderReached ==
    /\ Done /\ call = "filter" /\ T_ = MaxT
    /\ Retained("filtered_means") /\ Retained("filtered_covariances")
    /\ llTerms[MaxT] # StepLogProb([mean |-> outputs["filtered_means"][MaxT],
                                    cov |-> outputs["filtered_covariances"][MaxT]], MaxT)

\* C9: the sampler draws state T-1 from the last filtered mean and covariance,
\* and for t = T-2 down to 0 draws state t from the Gaussian that _condition_on
\* gives for (filtered_mean_t, filtered_cov_t) with the dynamics function, its
\* Jacobian, Q_t, u_t and one relinearization, the observed value being the
\* state already drawn for t+1; the result holds the draw for time t at index t.
DrawFor(tt) == CHOOSE d \in { draws[i] : i \in 1..Len(draws) } : d.t = tt

BackwardSampling ==
    /\ call = "sampler" =>
          \A i \in 1..Len(draws) :
              LET d == draws[i]
              IN  /\ d.t = T_ - i
                  /\ d.state = MVNSample(d.mean, d.cov, d.key)
                  /\ i = 1 =>
                        /\ d.mean = posterior.filtered_means.v[T_]
                        /\ d.cov = posterior.filtered_covariances.v[T_]
                  /\ i > 1 =>
                        /\ d.given = [tag |-> "array", v |-> draws[i - 1].state]
                        /\ [mean |-> d.mean, cov |-> d.cov] =
                              _condition_on(posterior.filtered_means.v[d.t + 1],
                                            posterior.filtered_covariances.v[d.t + 1],
                                            f, F, Q_(d.t), u_(d.t), draws[i - 1].state, 1)
    /\ (Done /\ call = "sampler") =>
          /\ Len(result) = T_
          /\ \A tt \in 0..(T_ - 1) : result[tt + 1] = DrawFor(tt).state

\* a finished sampler whose draw for t+1 is not the filtered mean of t+1
BackwardSamplingReached ==
    /\ Done /\ call = "sampler" /\ T_ = MaxT
    /\ \A tt \in 1..(MaxT - 1) : result[tt + 1] # posterior.filtered_means.v[tt + 1]
    /\ result[1] # result[MaxT]

\* C10: predicted_means[t] and predicted_covariances[t] of the filter are the
\* prediction for time t+1 made from filtered_t with Q_t and u_t (the carry into
\* step t+1, not the prior of step t), and the one-step prediction the smoother
\* recomputes at step t <= T-2 equals them.
PredictedShifted ==
    /\ (Retained("predicted_means") /\ Retained("predicted_covariances")) =>
          /\ Len(outputs["predicted_means"]) = Len(carryIn)
          /\ \A i \in 1..Len(carryIn) :
                /\ (pc = "filter" \/ i < Len(carryIn)) =>
                      [mean |-> outputs["predicted_means"][i],
                       cov |-> outputs["predicted_covariances"][i]] = CarryAfter(i)
                /\ (Retained("filtered_means") /\ Retained("filtered_covariances")) =>
                      [mean |-> outputs["predicted_means"][i],
                       cov |-> outputs["predicted_covariances"][i]] =
                          StepPredicted([mean |-> outputs["filtered_means"][i],
                                         cov |-> outputs["filtered_covariances"][i]], i)
    /\ call = "smoother" =>
          \A j \in 1..Len(smPred) :
              LET tt == T_ - 1 - Len(smPred) + j
              IN  /\ smPred[j].mean = posterior.predicted_means.v[tt]
                  /\ smPred[j].cov = posterior.predicted_covariances.v[tt]
    /\ (Done /\ call = "smoother") => Len(smPred) = T_ - 1

\* a finished smoother that recomputed T-1 predictions, none of them the prior
PredictedShiftedReached ==
    /\ Done /\ call = "smoother" /\ T_ = MaxT
    /\ Len(smPred) = MaxT - 1
    /\ posterior.predicted_means.v[1] # params.initial_mean
    /\ posterior.predicted_covariances.v[1] # params.initial_covariance

\* the whole scan of the filter with niter relinearizations: the outputs of
\* steps tt .. T-1 from carry c
RECURSIVE FilterScan(_, _, _)
FilterScan(c, tt, niter) ==
    IF tt >= num_timesteps THEN << >>
    ELSE << FilterStepFn(c, tt, niter).outputs >>
             \o FilterScan(FilterStepFn(c, tt, niter).carry, tt + 1, niter)

LinearModel == params.dynamics_function.c = 0 /\ params.emission_function.c = 0

\* C2: for a linear model the filtered means and covariances are the same with
\* num_iter = 5 as with num_iter = 1.
RelinearizationIdempotent ==
    (/\ Done /\ call = "filter" /\ LinearModel /\ num_iter = 5
     /\ Retained("filtered_means") /\ Retained("filtered_covariances")) =>
        \A i \in 1..T_ :
            /\ outputs["filtered_means"][i] = FilterScan(FilterInitCarry, 0, 1)[i].filtered_means
            /\ outputs["filtered_covariances"][i] =
                  FilterScan(FilterInitCarry, 0, 1)[i].filtered_covariances

\* the closed-form linear Kalman filter of the scalar model x' = a x, y = x:
\* gain K = P / (P + R), mean m + K (y - m), covariance (1 - K) P
RECURSIVE KalmanFilter(_, _, _, _, _, _)
KalmanFilter(m, P, a, Q, R, ys) ==
    IF ys = << >> THEN << >>
    ELSE LET K == Div(P, P + R)
             fm == m + Mul(K, Head(ys)[1] - m)
             fP == Mul(SCALE - K, P)
         IN  << [mean |-> fm, cov |-> fP] >>
               \o KalmanFilter(Mul(a, fm), Mul(Mul(a, a), fP) + Q, a, Q, R, Tail(ys))

\* f(x) = 0.9 x, h(x) = x, Q = 0.1, R = 1.0, m0 = 0, S0 = 1.0,
\* observations [0.5, -0.2, 0.8], num_iter = 1
ConcreteScenario ==
    /\ call = "filter" /\ num_iter = 1 /\ inputs = None
    /\ params = Linear1D
    /\ emissions = << << Tenths(5) >>, << -Tenths(2) >>, << Tenths(8) >> >>
ConcreteReference ==
    KalmanFilter(0, Tenths(10), Tenths(9), Tenths(1), Tenths(10), emissions)

Tol6 == SCALE \div (10 ^ 6)
MeanTol == 15 * (SCALE \div (10 ^ 5))

\* C3 as stated: on the concrete scenario the filtered means and covariances
\* match the closed-form Kalman filter to within 1e-6 at every timestep.
ConcreteMatchesKalman ==
    ConcreteScenario =>
        /\ Retained("filtered_means") =>
              \A i \in 1..Len(outputs["filtered_means"]) :
                  Abs(outputs["filtered_means"][i][1] - ConcreteReference[i].mean) <= Tol6
        /\ Retained("filtered_covariances") =>
              \A i \in 1..Len(outputs["filtered_covariances"]) :
                  Abs(outputs["filtered_covariances"][i][1][1] - ConcreteReference[i].cov) <= Tol6

\* C3 amended: the filtered covariances match the closed-form Kalman filter to
\* within 1e-6, the filtered means only to within 1.5e-4.
ConcreteNearKalman ==
    ConcreteScenario =>
        /\ Retained("filtered_means") =>
              \A i \in 1..Len(outputs["filtered_means"]) :
                  Abs(outputs["filtered_means"][i][1] - ConcreteReference[i].mean) <= MeanTol
        /\ Retained("filtered_covariances") =>
              \A i \in 1..Len(outputs["filtered_covariances"]) :
                  Abs(outputs["filtered_covariances"][i][1][1] - ConcreteReference[i].cov) <= Tol6

\* the concrete scenario has been filtered to its end
ConcreteNearKalmanReached ==
    /\ ConcreteScenario /\ Done
    /\ Retained("filtered_means") /\ Retained("filtered_covariances")
    /\ Len(outputs["filtered_means"]) = 3
    /\ outputs["filtered_means"][3][1] # ConcreteReference[3].mean

\* C4: whatever output_fields is, the posterior's marginal_loglik is the scalar
\* final log-likelihood, the sum of the per-timestep predictive log-densities;
\* and when "marginal_loglik" is requested, the retained per-step values sum to
\* that total.
LoglikAdditive ==
    (Done /\ call = "filter") =>
        /\ posterior.marginal_loglik.tag = "scalar"
        /\ posterior.marginal_loglik.x = SeqSum(llTerms)
        /\ Retained("marginal_loglik") => SeqSum(outputs["marginal_loglik"]) = SeqSum(llTerms)

\* C5: with a per-timestep covariance whose length differs from the number of
\* observations, no step of any recursion runs and no call returns.
LengthMismatch ==
    \/ /\ params.dynamics_covariance.ndim = 3
       /\ Len(params.dynamics_covariance.stack) # T_
    \/ /\ params.emission_covariance.ndim = 3
       /\ Len(params.emission_covariance.stack) # T_

LengthMismatchFatal ==
    LengthMismatch => (pc = "filter" /\ t = 0 /\ carryIn = << >> /\ result = None)
====
